---- MODULE Spec2Model ----
(***************************************************************************)
(* The orchestration engine of Softsmith: the task graph of one project,   *)
(* the resolver/dispatcher (Orchestrator.schedule_next_tasks), the         *)
(* completion and failure handlers and the fixer side channel.             *)
(*                                                                         *)
(* Every agent runs as a Celery task in a worker of its own, with a        *)
(* database session of its own (async_session_maker, expire_on_commit =    *)
(* False).  The store (tasks, project) is what is committed.  A run takes  *)
(* a step when it starts, when its agent returns (up to the SELECT of the  *)
(* pending tasks), and when it goes through the pending tasks it read.     *)
(* An object a session has loaded stays in its identity map and is not     *)
(* refreshed by a later SELECT of the same session: each run therefore     *)
(* carries the values it loaded (retry, proj, pend0).                      *)
(*                                                                         *)
(* The events table is the subject of SpecEvents, with the operations that *)
(* write it; the specifications of the engine do not follow the events the *)
(* agents insert and leave the variable as it is.  SpecEvents also takes  *)
(* the resume request of the API, in two steps: its arrival and the call   *)
(* of resume_project that answers it.                                      *)
(***************************************************************************)
EXTENDS Integers, Sequences, FiniteSets, TLC

\* Bounds of the model.
max_retries == 2      \* config.app.max_retries as configured for the run
MaxStarts == 6        \* agent invocations that a worker picks up, over all tasks

Components == {"backend", "frontend", "infrastructure"}
TaskIds == {"plan"} \cup Components \cup {"test", "deploy"}

\* The specifications the planner may return, each as the set of the
\* components it declares: none, one, and two that run side by side.
SpecInputs == {{}, {"infrastructure"}, {"backend", "frontend"}}

VARIABLES
    project,   \* the Project row
    tasks,     \* the Task rows, by id
    runs,      \* per task, the Celery invocations issued for it, in order
    issued,    \* per task, agent invocations issued since it last became PENDING
    owesReady, \* every task was COMPLETED at some point and READY has not followed
    prior,     \* the status the project had when it was last paused
    other,     \* a second project: its row and the statuses of its tasks
    events,    \* the events of the project, in the order of their insertion
    resumed    \* the resume request: "idle", "pending", or what resume_project returned

vars == <<project, tasks, runs, issued, owesReady, prior, other, events, resumed>>

NoTask == [type |-> "NONE", status |-> "NONE", depends_on |-> {},
           retry_count |-> 0, error_message |-> "none", celery_task_id |-> 0]

NoProject == [status |-> "NONE", total_tasks |-> 0, completed_tasks |-> 0,
              failed_tasks |-> 0, last_error |-> <<>>, spec |-> {}]

\* The tasks of the second project, whose spec declares no component.
OtherTasks == {"plan", "test", "deploy"}

NoOther == [status |-> "NONE", total_tasks |-> 0, completed_tasks |-> 0,
            failed_tasks |-> 0, last_error |-> <<>>,
            tasks |-> [u \in OtherTasks |-> "NONE"]]

NoSnap == [status |-> "NONE", completed_tasks |-> 0, failed_tasks |-> 0]

\* A Celery message: kind "agent" runs the agent of the task's type,
\* kind "fixer" runs run_fixer(task_id, error).
NewRun(kind, error) ==
    [kind |-> kind, pc |-> "queued", retry |-> 0, proj |-> NoSnap,
     pend0 |-> {}, error |-> error]

\* A run that has returned keeps nothing but its kind.
Done(run) == [NewRun(run.kind, "none") EXCEPT !.pc = "done"]

Existing == {t \in TaskIds : tasks[t].status # "NONE"}

Started == {tk \in TaskIds \X (1..MaxStarts) :
               /\ tk[2] <= Len(runs[tk[1]])
               /\ runs[tk[1]][tk[2]].kind = "agent"
               /\ runs[tk[1]][tk[2]].pc # "queued"}

\* Task(...) as the constructor calls of the orchestrator build it.
NewTask(type) == [NoTask EXCEPT !.type = type, !.status = "PENDING"]

Init ==
    /\ project = NoProject
    /\ tasks = [t \in TaskIds |-> NoTask]
    /\ runs = [t \in TaskIds |-> <<>>]
    /\ issued = [t \in TaskIds |-> 0]
    /\ owesReady = FALSE
    /\ prior = "NONE"
    /\ other = NoOther
    /\ events = <<>>
    /\ resumed = "idle"

\* The runs after run k of task t became r and, when u is a task, a new
\* message m was enqueued for u.
WithRun(t, k, r) == [runs EXCEPT ![t][k] = r]

WithRunAndMessage(t, k, r, u, m) ==
    [x \in TaskIds |->
        LET base == IF x = t THEN [runs[t] EXCEPT ![k] = r] ELSE runs[x]
        IN  IF x = u THEN Append(base, m) ELSE base]

\* Every task of the project is COMPLETED.
AllCompleted ==
    /\ Existing # {}
    /\ \A t \in Existing : tasks[t].status = "COMPLETED"

\* No invocation is queued or running: nothing will call back any more.
Quiescent == \A t \in TaskIds : \A k \in 1..Len(runs[t]) : runs[t][k].pc = "done"

\* The obligation "all tasks COMPLETED, READY to follow" is raised when
\* every task is COMPLETED and discharged when the project is READY.
Obligation ==
    owesReady' = IF project'.status = "READY" THEN FALSE
                 ELSE IF AllCompleted' THEN TRUE
                 ELSE owesReady

-----------------------------------------------------------------------------
\* A creation that enqueues the planner and records no handle of it.
CreateProjectNoHandle ==
    /\ project.status = "NONE"
    /\ project' = [NoProject EXCEPT !.status = "NEW"]
    /\ tasks' = [tasks EXCEPT !["plan"] =
                    [NewTask("PLANNING") EXCEPT !.status = "QUEUED"]]
    /\ runs' = [runs EXCEPT !["plan"] = <<NewRun("agent", "none")>>]
    /\ issued' = [issued EXCEPT !["plan"] = 1]
    /\ Obligation
    /\ UNCHANGED <<prior, other, events, resumed>>

\* create_project + schedule_planning: the project row, the planning task
\* and run_planner.delay.
CreateProject ==
    /\ project.status = "NONE"
    /\ project' = [NoProject EXCEPT !.status = "NEW"]
    /\ tasks' = [tasks EXCEPT !["plan"] =
                    [NewTask("PLANNING") EXCEPT !.status = "QUEUED",
                                                !.celery_task_id = 1]]
    /\ runs' = [runs EXCEPT !["plan"] = <<NewRun("agent", "none")>>]
    /\ issued' = [issued EXCEPT !["plan"] = 1]
    /\ Obligation
    /\ UNCHANGED <<prior, other, events, resumed>>

\* An agent picked up by a worker: it loads its task and its project and
\* marks the task RUNNING, whatever status the task has.
AgentStart(t, k) ==
    /\ runs[t][k].kind = "agent"
    /\ runs[t][k].pc = "queued"
    /\ Cardinality(Started) < MaxStarts
    /\ tasks' = [tasks EXCEPT ![t].status = "RUNNING"]
    /\ runs' = WithRun(t, k, [runs[t][k] EXCEPT
                   !.pc = "running",
                   !.retry = tasks[t].retry_count,
                   !.proj = [status |-> project.status,
                             completed_tasks |-> project.completed_tasks,
                             failed_tasks |-> project.failed_tasks]])
    /\ UNCHANGED <<project, issued>>
    /\ Obligation
    /\ UNCHANGED <<prior, other, events, resumed>>

\* A task list committed as it is flushed: the cross-references of the
\* batch are not patched in yet.
create_tasks_flushed(spec) ==
    [t \in TaskIds |->
        IF t \in spec THEN NewTask("CODEGEN")
        ELSE IF t = "test" THEN NewTask("TESTING")
        ELSE IF t = "deploy" THEN NewTask("DEPLOYMENT")
        ELSE NoTask]

\* A task list whose test task also waits for the deployment.
create_tasks_cyclic(spec) ==
    [t \in TaskIds |->
        IF t \in spec THEN NewTask("CODEGEN")
        ELSE IF t = "test" THEN [NewTask("TESTING") EXCEPT !.depends_on = spec \cup {"deploy"}]
        ELSE IF t = "deploy" THEN [NewTask("DEPLOYMENT") EXCEPT !.depends_on = {"test"}]
        ELSE NoTask]

\* A task list whose test task is left with the empty depends_on it is
\* constructed with.
create_tasks_unlinked(spec) ==
    [t \in TaskIds |->
        IF t \in spec THEN NewTask("CODEGEN")
        ELSE IF t = "test" THEN NewTask("TESTING")
        ELSE IF t = "deploy" THEN [NewTask("DEPLOYMENT") EXCEPT !.depends_on = {"test"}]
        ELSE NoTask]

\* create_tasks_from_spec: one CODEGEN task per declared component, the
\* TESTING task on all of them, the DEPLOYMENT task on the TESTING task;
\* inserted and cross-referenced in one transaction.
create_tasks_from_spec(spec) ==
    [t \in TaskIds |->
        IF t \in spec THEN NewTask("CODEGEN")
        ELSE IF t = "test" THEN [NewTask("TESTING") EXCEPT !.depends_on = spec]
        ELSE IF t = "deploy" THEN [NewTask("DEPLOYMENT") EXCEPT !.depends_on = {"test"}]
        ELSE NoTask]

\* A SELECT that overlooks the PENDING tasks that have been retried.
PendingTasksUntried(ts) ==
    {u \in TaskIds : ts[u].status = "PENDING" /\ ts[u].retry_count = 0}

\* schedule_next_tasks, the SELECT of the project's PENDING tasks, over the
\* task rows ts.
PendingTasks(ts) == {u \in TaskIds : ts[u].status = "PENDING"}

\* The planner's success path, on_planning_complete and the SELECT that
\* opens its schedule_next_tasks.
PlannerSucceed(k, spec) ==
    /\ runs["plan"][k].kind = "agent"
    /\ runs["plan"][k].pc = "running"
    /\ LET created == create_tasks_from_spec(spec)
       IN  /\ tasks' = [t \in TaskIds |->
                          IF t = "plan" THEN [tasks[t] EXCEPT !.status = "COMPLETED"]
                          ELSE IF created[t].status # "NONE" THEN created[t]
                          ELSE tasks[t]]
           /\ project' = [project EXCEPT
                  !.spec = spec,
                  !.status = "CODING",
                  !.total_tasks = Cardinality({t \in TaskIds : created[t].status # "NONE"})]
    /\ runs' = WithRun("plan", k, [runs["plan"][k] EXCEPT
                   !.pc = "dispatch", !.pend0 = PendingTasks(tasks')])
    /\ UNCHANGED issued
    /\ Obligation
    /\ UNCHANGED <<prior, other, events, resumed>>

\* The planner's except path: the task is marked FAILED and nothing is
\* called back.
PlannerFail(k) ==
    /\ runs["plan"][k].kind = "agent"
    /\ runs["plan"][k].pc = "running"
    /\ tasks' = [tasks EXCEPT !["plan"].status = "FAILED",
                              !["plan"].error_message = "exception"]
    /\ runs' = WithRun("plan", k, Done(runs["plan"][k]))
    /\ UNCHANGED <<project, issued>>
    /\ Obligation
    /\ UNCHANGED <<prior, other, events, resumed>>

-----------------------------------------------------------------------------
\* A success path that drops the completion of a task whose project has
\* been paused or has failed.
AgentSucceedUnlessStopped(t, k) ==
    /\ t # "plan"
    /\ runs[t][k].kind = "agent"
    /\ runs[t][k].pc = "running"
    /\ tasks' = IF project.status \in {"PAUSED", "FAILED"} THEN tasks
                ELSE [tasks EXCEPT ![t].status = "COMPLETED"]
    /\ project' = IF project.status \in {"PAUSED", "FAILED"} THEN project
                  ELSE [project EXCEPT
                           !.completed_tasks = runs[t][k].proj.completed_tasks + 1]
    /\ runs' = WithRun(t, k, [runs[t][k] EXCEPT
                   !.pc = "dispatch", !.pend0 = PendingTasks(tasks')])
    /\ UNCHANGED issued
    /\ Obligation
    /\ UNCHANGED <<prior, other, events, resumed>>

\* An agent's success path: the task is marked COMPLETED, on_task_complete
\* stamps it and writes the completed-task counter from the project object
\* the session loaded when the agent started, and schedule_next_tasks reads
\* the pending tasks.
AgentSucceed(t, k) ==
    /\ t # "plan"
    /\ runs[t][k].kind = "agent"
    /\ runs[t][k].pc = "running"
    /\ tasks' = [tasks EXCEPT ![t].status = "COMPLETED"]
    /\ project' = [project EXCEPT
           !.completed_tasks = runs[t][k].proj.completed_tasks + 1]
    /\ runs' = WithRun(t, k, [runs[t][k] EXCEPT
                   !.pc = "dispatch", !.pend0 = PendingTasks(tasks')])
    /\ UNCHANGED issued
    /\ Obligation
    /\ UNCHANGED <<prior, other, events, resumed>>

\* An agent's except path up to its call of on_task_failure: the task is
\* marked FAILED with the exception's text.
AgentFail(t, k) ==
    /\ t # "plan"
    /\ runs[t][k].kind = "agent"
    /\ runs[t][k].pc = "running"
    /\ tasks' = [tasks EXCEPT ![t].status = "FAILED",
                              ![t].error_message = "exception"]
    /\ runs' = WithRun(t, k, [runs[t][k] EXCEPT !.pc = "failing",
                                                !.error = "exception"])
    /\ UNCHANGED <<project, issued>>
    /\ Obligation
    /\ UNCHANGED <<prior, other, events, resumed>>

\* The tester's "tests failed" branch: on_task_failure is called with the
\* task still RUNNING.
TestsFail(t, k) ==
    /\ tasks[t].type = "TESTING"
    /\ runs[t][k].kind = "agent"
    /\ runs[t][k].pc = "running"
    /\ runs' = WithRun(t, k, [runs[t][k] EXCEPT !.pc = "failing",
                                                !.error = "tests_failed"])
    /\ UNCHANGED <<project, tasks, issued>>
    /\ Obligation
    /\ UNCHANGED <<prior, other, events, resumed>>

\* A test that lets a task at max_retries be retried once more.
CanRetryLeq(retry_count) == retry_count <= max_retries

\* retry_count < max_retries, on the retry_count the session holds.
CanRetry(retry_count) == retry_count < max_retries

\* What "task.error_message = error" stores: the session of an agent whose
\* except path ran already holds that text, and an attribute that is set to
\* the value the session holds is not written again.
RecordedError(run, stored) == IF run.error = "exception" THEN stored ELSE run.error

\* A retry branch that counts the failure on the project row as well.
OnTaskFailureRetryCounted(t, k) ==
    /\ runs[t][k].pc = "failing"
    /\ CanRetry(runs[t][k].retry)
    /\ tasks' = [tasks EXCEPT ![t].status = "RETRYING",
                              ![t].retry_count = runs[t][k].retry + 1,
                              ![t].error_message = RecordedError(runs[t][k], @),
                              ![t].celery_task_id = Len(runs[t]) + 1]
    /\ runs' = WithRunAndMessage(t, k, Done(runs[t][k]),
                                 t, NewRun("fixer", runs[t][k].error))
    /\ project' = [project EXCEPT !.failed_tasks = @ + 1]
    /\ UNCHANGED issued
    /\ Obligation
    /\ UNCHANGED <<prior, other, events, resumed>>

\* on_task_failure, first branch: RETRYING, the counter written from the
\* value read, the error recorded, run_fixer.delay(task.id, error).
OnTaskFailureRetry(t, k) ==
    /\ runs[t][k].pc = "failing"
    /\ CanRetry(runs[t][k].retry)
    /\ tasks' = [tasks EXCEPT ![t].status = "RETRYING",
                              ![t].retry_count = runs[t][k].retry + 1,
                              ![t].error_message = RecordedError(runs[t][k], @),
                              ![t].celery_task_id = Len(runs[t]) + 1]
    /\ runs' = WithRunAndMessage(t, k, Done(runs[t][k]),
                                 t, NewRun("fixer", runs[t][k].error))
    /\ UNCHANGED <<project, issued>>
    /\ Obligation
    /\ UNCHANGED <<prior, other, events, resumed>>

\* An exhausted branch whose project update is not restricted to the
\* task's project_id.
OnTaskFailureExhaustedAnyProject(t, k) ==
    /\ runs[t][k].pc = "failing"
    /\ ~CanRetry(runs[t][k].retry)
    /\ tasks' = [tasks EXCEPT ![t].status = "FAILED"]
    /\ project' = [project EXCEPT !.failed_tasks = @ + 1, !.status = "FAILED",
                                  !.last_error = <<t, runs[t][k].error>>]
    /\ other' = IF other.status = "NONE" THEN other
                ELSE [other EXCEPT !.failed_tasks = @ + 1, !.status = "FAILED",
                                   !.last_error = <<t, runs[t][k].error>>]
    /\ runs' = WithRun(t, k, Done(runs[t][k]))
    /\ UNCHANGED issued
    /\ Obligation
    /\ UNCHANGED <<prior, events, resumed>>

\* on_task_failure, second branch: the task FAILED, the project's counter
\* written from the project object the session loaded, the project FAILED.
\* A status the session already holds is not written again.
OnTaskFailureExhausted(t, k) ==
    /\ runs[t][k].pc = "failing"
    /\ ~CanRetry(runs[t][k].retry)
    /\ tasks' = [tasks EXCEPT
           ![t].status = IF runs[t][k].error = "exception" THEN @ ELSE "FAILED",
           ![t].error_message = RecordedError(runs[t][k], @)]
    /\ project' = [project EXCEPT
           !.failed_tasks = runs[t][k].proj.failed_tasks + 1,
           !.status = IF runs[t][k].proj.status = "FAILED" THEN @ ELSE "FAILED",
           !.last_error = <<t, runs[t][k].error>>]
    /\ runs' = WithRun(t, k, Done(runs[t][k]))
    /\ UNCHANGED issued
    /\ Obligation
    /\ UNCHANGED <<prior, other, events, resumed>>

\* A fixer that resets the task and returns without calling the resolver.
FixerSucceedNoResolver(t, k) ==
    /\ runs[t][k].kind = "fixer"
    /\ runs[t][k].pc = "queued"
    /\ tasks' = [tasks EXCEPT ![t].status = "PENDING",
                              ![t].error_message = "none"]
    /\ runs' = WithRun(t, k, Done(runs[t][k]))
    /\ issued' = [issued EXCEPT ![t] = 0]
    /\ UNCHANGED project
    /\ Obligation
    /\ UNCHANGED <<prior, other, events, resumed>>

\* The fixer's success path: the task is reset to PENDING and its error
\* cleared, and schedule_next_tasks reads the pending tasks.
FixerSucceed(t, k) ==
    /\ runs[t][k].kind = "fixer"
    /\ runs[t][k].pc = "queued"
    /\ tasks' = [tasks EXCEPT ![t].status = "PENDING",
                              ![t].error_message = "none"]
    /\ runs' = WithRun(t, k, [runs[t][k] EXCEPT
                   !.pc = "dispatch", !.pend0 = PendingTasks(tasks')])
    /\ issued' = [issued EXCEPT ![t] = 0]
    /\ UNCHANGED project
    /\ Obligation
    /\ UNCHANGED <<prior, other, events, resumed>>

\* The fixer's except path: the task is marked FAILED; the project is not
\* touched and nothing is called back.
FixerFail(t, k) ==
    /\ runs[t][k].kind = "fixer"
    /\ runs[t][k].pc = "queued"
    /\ tasks' = [tasks EXCEPT ![t].status = "FAILED",
                              ![t].error_message = "fix_failed"]
    /\ runs' = WithRun(t, k, Done(runs[t][k]))
    /\ UNCHANGED <<project, issued>>
    /\ Obligation
    /\ UNCHANGED <<prior, other, events, resumed>>

-----------------------------------------------------------------------------
\* What the session of run (t, k) sees as "dep_task.status == COMPLETED":
\* its own task as it last wrote it, a task of its pending list as PENDING
\* or QUEUED, any other task as the store has it (a missing one as absent).
DepCompleted(t, run, d) ==
    IF d = t THEN run.kind = "agent"
    ELSE IF d \in run.pend0 THEN FALSE
    ELSE tasks[d].status = "COMPLETED"

_task_is_ready(t, run, u) ==
    \A d \in tasks[u].depends_on : DepCompleted(t, run, d)

\* A router that knows the code generator only.
RoutedCodegenOnly(type) == type = "CODEGEN"

\* The task types _schedule_task routes to an agent.
Routed(type) == type \in {"CODEGEN", "TESTING", "DEPLOYMENT", "WEB_TEST"}

\* The tasks the loop of schedule_next_tasks hands to _schedule_task.
ReadyTasks(t, run) == {u \in run.pend0 : _task_is_ready(t, run, u)}

\* _schedule_task on each task of ready: QUEUED is written with no
\* condition on the stored status, and the agent of the type is enqueued.
ScheduledTasks(ready) ==
    [u \in TaskIds |->
        IF u \in ready
        THEN [tasks[u] EXCEPT
                 !.status = "QUEUED",
                 !.celery_task_id = IF Routed(tasks[u].type) THEN Len(runs[u]) + 1 ELSE @]
        ELSE tasks[u]]

ScheduledRuns(t, k, ready) ==
    [u \in TaskIds |->
        LET base == IF u = t THEN [runs[t] EXCEPT ![k] = Done(runs[t][k])] ELSE runs[u]
        IN  IF u \in ready /\ Routed(tasks[u].type)
            THEN Append(base, NewRun("agent", "none"))
            ELSE base]

ScheduledIssued(ready) ==
    [u \in TaskIds |->
        IF u \in ready /\ Routed(tasks[u].type) THEN issued[u] + 1 ELSE issued[u]]

\* all(t.status == COMPLETED for t in tasks) as the session sees it: its own
\* task as it holds it, the tasks of its pending list PENDING or QUEUED, the
\* others as stored.
all_complete(t, run) ==
    /\ run.pend0 = {}
    /\ \A x \in Existing \ {t} : tasks[x].status = "COMPLETED"

\* The loop of schedule_next_tasks over the pending tasks the session read,
\* in the planner's and the fixer's session, which then return.
schedule_next_tasks(t, k) ==
    /\ runs[t][k].pc = "dispatch"
    /\ runs[t][k].kind = "fixer" \/ t = "plan"
    /\ LET ready == ReadyTasks(t, runs[t][k])
       IN  /\ tasks' = ScheduledTasks(ready)
           /\ runs' = ScheduledRuns(t, k, ready)
           /\ issued' = ScheduledIssued(ready)
    /\ UNCHANGED project
    /\ Obligation
    /\ UNCHANGED <<prior, other, events, resumed>>

\* The rest of on_task_complete: the loop of schedule_next_tasks, then
\* _check_project_completion.
on_task_complete(t, k) ==
    /\ runs[t][k].pc = "dispatch"
    /\ runs[t][k].kind = "agent" /\ t # "plan"
    /\ LET ready == ReadyTasks(t, runs[t][k])
       IN  /\ tasks' = ScheduledTasks(ready)
           /\ runs' = ScheduledRuns(t, k, ready)
           /\ issued' = ScheduledIssued(ready)
    /\ project' = IF all_complete(t, runs[t][k]) /\ runs[t][k].proj.status # "READY"
                  THEN [project EXCEPT !.status = "READY"]
                  ELSE project
    /\ Obligation
    /\ UNCHANGED <<prior, other, events, resumed>>

-----------------------------------------------------------------------------
Next ==
    \/ CreateProject
    \/ \E k \in 1..Len(runs["plan"]) : \E spec \in SpecInputs : PlannerSucceed(k, spec)
    \/ \E k \in 1..Len(runs["plan"]) : PlannerFail(k)
    \/ \E t \in TaskIds : \E k \in 1..Len(runs[t]) : AgentStart(t, k)
    \/ \E t \in TaskIds : \E k \in 1..Len(runs[t]) : AgentSucceed(t, k)
    \/ \E t \in TaskIds : \E k \in 1..Len(runs[t]) : AgentFail(t, k)
    \/ \E t \in TaskIds : \E k \in 1..Len(runs[t]) : TestsFail(t, k)
    \/ \E t \in TaskIds : \E k \in 1..Len(runs[t]) : OnTaskFailureRetry(t, k)
    \/ \E t \in TaskIds : \E k \in 1..Len(runs[t]) : OnTaskFailureExhausted(t, k)
    \/ \E t \in TaskIds : \E k \in 1..Len(runs[t]) : FixerSucceed(t, k)
    \/ \E t \in TaskIds : \E k \in 1..Len(runs[t]) : FixerFail(t, k)
    \/ \E t \in TaskIds : \E k \in 1..Len(runs[t]) : schedule_next_tasks(t, k)
    \/ \E t \in TaskIds : \E k \in 1..Len(runs[t]) : on_task_complete(t, k)

Spec == Init /\ [][Next]_vars

-----------------------------------------------------------------------------
\* POST /projects/{id}/pause: update_project_status(PAUSED) on the project
\* as the request's session reads it, whatever status it has.
PauseProject ==
    /\ project.status # "NONE"
    /\ project' = [project EXCEPT !.status = "PAUSED"]
    /\ prior' = IF project.status = "PAUSED" THEN prior ELSE project.status
    /\ UNCHANGED <<tasks, runs, issued, other, events, resumed>>
    /\ Obligation

\* POST /projects/{id}/resume: refused unless the project is PAUSED, and
\* then update_project_status(CODING).
ResumeProject ==
    /\ project.status = "PAUSED"
    /\ project' = [project EXCEPT !.status = "CODING"]
    /\ UNCHANGED <<tasks, runs, issued, prior, other, events, resumed>>
    /\ Obligation

\* The engine with the pause and resume requests of the API.
NextPause ==
    \/ Next
    \/ PauseProject
    \/ ResumeProject

SpecPause == Init /\ [][NextPause]_vars

-----------------------------------------------------------------------------
\* select(Task).where(Task.id == task_id) ... scalar_one_or_none() finds a row.
TaskFound(t) == tasks[t].status # "NONE"

\* select(Project).where(Project.id == project_id) ... finds a row.
ProjectFound == project.status \notin {"NONE", "DELETED"}

\* A run whose callback logged "Task not found" or "Project not found" and
\* returned.
NotFound(run) == [NewRun(run.kind, "none") EXCEPT !.pc = "not_found"]

\* DELETE /projects/{id}: the project row is deleted and, through the
\* foreign keys (ondelete CASCADE), its tasks and events with it.  The Celery messages
\* that were issued for its tasks stay in flight.
DeleteProject ==
    /\ ProjectFound
    /\ project' = [NoProject EXCEPT !.status = "DELETED"]
    /\ tasks' = [t \in TaskIds |-> NoTask]
    /\ events' = <<>>
    /\ UNCHANGED <<runs, issued, prior, other, resumed>>
    /\ Obligation

\* An agent or the fixer picked up by a worker after the deletion: its
\* lookup finds nothing and it returns {"error": "... not found"}.
AgentNotFound(t, k) ==
    /\ runs[t][k].pc = "queued"
    /\ IF t = "plan" THEN ~ProjectFound ELSE ~TaskFound(t)
    /\ runs' = WithRun(t, k, Done(runs[t][k]))
    /\ UNCHANGED <<project, tasks, issued, prior, other, events, resumed>>
    /\ Obligation

\* A not-found branch that fails the project all the same.
on_task_failure_unchecked(t, k) ==
    /\ runs[t][k].pc = "failing"
    /\ ~TaskFound(t)
    /\ project' = [project EXCEPT !.status = "FAILED",
                                  !.failed_tasks = @ + 1]
    /\ runs' = WithRun(t, k, NotFound(runs[t][k]))
    /\ UNCHANGED <<tasks, issued, prior, other, events, resumed>>
    /\ Obligation

\* on_task_complete(task_id, output) when the task is not found: the error
\* is logged and the handler returns.
on_task_complete_not_found(t, k) ==
    /\ t # "plan"
    /\ runs[t][k].kind = "agent"
    /\ runs[t][k].pc = "running"
    /\ ~TaskFound(t)
    /\ runs' = WithRun(t, k, NotFound(runs[t][k]))
    /\ UNCHANGED <<project, tasks, issued, prior, other, events, resumed>>
    /\ Obligation

\* on_task_failure(task_id, error) when the task is not found: the error is
\* logged and the handler returns.
on_task_failure_not_found(t, k) ==
    /\ runs[t][k].pc = "failing"
    /\ ~TaskFound(t)
    /\ runs' = WithRun(t, k, NotFound(runs[t][k]))
    /\ UNCHANGED <<project, tasks, issued, prior, other, events, resumed>>
    /\ Obligation

\* on_planning_complete(project_id, spec) when the project is not found:
\* the error is logged and the handler returns; no task is created.
on_planning_complete_not_found(k) ==
    /\ runs["plan"][k].kind = "agent"
    /\ runs["plan"][k].pc = "running"
    /\ ~ProjectFound
    /\ runs' = WithRun("plan", k, NotFound(runs["plan"][k]))
    /\ UNCHANGED <<project, tasks, issued, prior, other, events, resumed>>
    /\ Obligation

\* A session that is in the loop of schedule_next_tasks when the rows go:
\* _schedule_task commits QUEUED before it enqueues, the UPDATE matches no
\* row, and the run ends with nothing written and nothing enqueued.
ScheduleAfterDelete(t, k) ==
    /\ runs[t][k].pc = "dispatch"
    /\ ~ProjectFound
    /\ runs' = WithRun(t, k, Done(runs[t][k]))
    /\ UNCHANGED <<project, tasks, issued, prior, other, events, resumed>>
    /\ Obligation

\* The engine with the delete request of the API: once the rows are gone
\* the invocations in flight meet the not-found branches.
NextDelete ==
    \/ ProjectFound /\ Next
    \/ ~ProjectFound /\ CreateProject
    \/ DeleteProject
    \/ \E t \in TaskIds : \E k \in 1..Len(runs[t]) : AgentNotFound(t, k)
    \/ \E t \in TaskIds : \E k \in 1..Len(runs[t]) : on_task_complete_not_found(t, k)
    \/ \E t \in TaskIds : \E k \in 1..Len(runs[t]) : on_task_failure_not_found(t, k)
    \/ \E k \in 1..Len(runs["plan"]) : on_planning_complete_not_found(k)
    \/ \E t \in TaskIds : \E k \in 1..Len(runs[t]) : ScheduleAfterDelete(t, k)

SpecDelete == Init /\ [][NextDelete]_vars

-----------------------------------------------------------------------------
\* A second project beside the first.  Its spec declares no component, so
\* its tasks run one after the other, and each of its invocations is taken
\* as one step.  Every query of the orchestrator is keyed by the id of a
\* task or by task.project_id, so these steps read and write the second
\* project's rows only.

\* create_project + schedule_planning for the second project.
OtherCreate ==
    /\ other.status = "NONE"
    /\ other' = [NoOther EXCEPT !.status = "NEW", !.tasks["plan"] = "QUEUED"]
    /\ UNCHANGED <<project, tasks, runs, issued, owesReady, prior, events, resumed>>

\* Its planner and on_planning_complete: the graph is created and the
\* resolver dispatches the test task, which has no dependency.
OtherPlanned ==
    /\ other.tasks["plan"] = "QUEUED"
    /\ other' = [other EXCEPT !.status = "CODING", !.total_tasks = 2,
                              !.tasks = [u \in OtherTasks |->
                                           IF u = "plan" THEN "COMPLETED"
                                           ELSE IF u = "test" THEN "QUEUED"
                                           ELSE "PENDING"]]
    /\ UNCHANGED <<project, tasks, runs, issued, owesReady, prior, events, resumed>>

\* The agent of its task u and on_task_complete: the task COMPLETED, the
\* counter, the dispatch of the task that waited for u, and the check for
\* completion.
OtherTaskCompleted(u) ==
    /\ u \in {"test", "deploy"}
    /\ other.tasks[u] = "QUEUED"
    /\ LET done == [other.tasks EXCEPT ![u] = "COMPLETED"]
           next == [v \in OtherTasks |->
                      IF v = "deploy" /\ done[v] = "PENDING" /\ done["test"] = "COMPLETED"
                      THEN "QUEUED" ELSE done[v]]
       IN  other' = [other EXCEPT
               !.tasks = next,
               !.completed_tasks = @ + 1,
               !.status = IF \A v \in OtherTasks : next[v] = "COMPLETED"
                          THEN "READY" ELSE @]
    /\ UNCHANGED <<project, tasks, runs, issued, owesReady, prior, events, resumed>>

\* A step of the second project.
OtherStep ==
    \/ OtherCreate
    \/ OtherPlanned
    \/ \E u \in OtherTasks : OtherTaskCompleted(u)

\* The engine with two projects.
NextTwo ==
    \/ Next
    \/ OtherStep

SpecTwo == Init /\ [][NextTwo]_vars

-----------------------------------------------------------------------------
\* Longer runs of one scenario: the spec declares backend and frontend, the
\* planner and the code generators succeed, the only failures are failed
\* tests, and every fix succeeds.  Every behaviour of SpecLong is a behaviour
\* of the engine with MaxStartsLong invocations picked up.
MaxStartsLong == 8

\* AgentStart within the longer budget.
AgentStartLong(t, k) ==
    /\ runs[t][k].kind = "agent"
    /\ runs[t][k].pc = "queued"
    /\ Cardinality(Started) < MaxStartsLong
    /\ tasks' = [tasks EXCEPT ![t].status = "RUNNING"]
    /\ runs' = WithRun(t, k, [runs[t][k] EXCEPT
                   !.pc = "running",
                   !.retry = tasks[t].retry_count,
                   !.proj = [status |-> project.status,
                             completed_tasks |-> project.completed_tasks,
                             failed_tasks |-> project.failed_tasks]])
    /\ UNCHANGED <<project, issued>>
    /\ Obligation
    /\ UNCHANGED <<prior, other, events, resumed>>

NextLong ==
    \/ CreateProject
    \/ \E k \in 1..Len(runs["plan"]) : PlannerSucceed(k, {"backend", "frontend"})
    \/ \E t \in TaskIds : \E k \in 1..Len(runs[t]) : AgentStartLong(t, k)
    \/ \E t \in TaskIds : \E k \in 1..Len(runs[t]) : AgentSucceed(t, k)
    \/ \E t \in TaskIds : \E k \in 1..Len(runs[t]) : TestsFail(t, k)
    \/ \E t \in TaskIds : \E k \in 1..Len(runs[t]) : OnTaskFailureRetry(t, k)
    \/ \E t \in TaskIds : \E k \in 1..Len(runs[t]) : OnTaskFailureExhausted(t, k)
    \/ \E t \in TaskIds : \E k \in 1..Len(runs[t]) : FixerSucceed(t, k)
    \/ \E t \in TaskIds : \E k \in 1..Len(runs[t]) : schedule_next_tasks(t, k)
    \/ \E t \in TaskIds : \E k \in 1..Len(runs[t]) : on_task_complete(t, k)

SpecLong == Init /\ [][NextLong]_vars

-----------------------------------------------------------------------------
\* The event log of a project and the operations that write it.
MaxEvents == 4

\* Event(type, level, source, details) as the services construct it.
NewEvent(type, level, source, details) ==
    [type |-> type, level |-> level, source |-> source, details |-> details]

\* The events an agent or ProgressService.log_event inserts, by type and level.
LoggedEvents == {<<"task_started", "info">>, <<"task_failed", "error">>}

\* The statuses update_project_status is called with.
StatusInputs == {"CODING", "PAUSED", "READY", "FAILED"}

\* ProjectService.create_project: the project row and its first event.
create_project ==
    /\ project.status = "NONE"
    /\ project' = [NoProject EXCEPT !.status = "NEW"]
    /\ events' = <<NewEvent("project_created", "info", "project_service", <<>>)>>
    /\ UNCHANGED <<tasks, runs, issued, owesReady, prior, other, resumed>>

\* ProgressService.log_event, and the db.add(Event(...)) of the agents: one
\* row is inserted.
log_event(type, level) ==
    /\ ProjectFound
    /\ Len(events) < MaxEvents
    /\ events' = Append(events, NewEvent(type, level, "agent", <<>>))
    /\ UNCHANGED <<project, tasks, runs, issued, owesReady, prior, other, resumed>>

\* A status update that keeps one status event and rewrites it.
update_project_status_in_place(status) ==
    /\ ProjectFound
    /\ Len(events) < MaxEvents
    /\ project' = [project EXCEPT !.status = status]
    /\ events' = [n \in 1..Len(events) |->
                     IF events[n].source = "project_service"
                     THEN [events[n] EXCEPT !.details = <<project.status, status>>]
                     ELSE events[n]]
    /\ UNCHANGED <<tasks, runs, issued, owesReady, prior, other, resumed>>

\* ProjectService.update_project_status: the status is written and an event
\* that records the change is inserted.
update_project_status(status) ==
    /\ ProjectFound
    /\ Len(events) < MaxEvents
    /\ project' = [project EXCEPT !.status = status]
    /\ events' = Append(events,
                     NewEvent(IF status = "READY" THEN "project_completed" ELSE "log",
                              IF status = "FAILED" THEN "error" ELSE "info",
                              "project_service", <<project.status, status>>))
    /\ UNCHANGED <<tasks, runs, issued, owesReady, prior, other, resumed>>

\* POST /projects/{id}/resume arrives.
ResumeRequest ==
    /\ resumed # "pending"
    /\ resumed' = "pending"
    /\ UNCHANGED <<project, tasks, runs, issued, owesReady, prior, other, events>>

\* A resume that does not look at the status it finds.
resume_project_unchecked ==
    /\ resumed = "pending"
    /\ IF ProjectFound
       THEN /\ Len(events) < MaxEvents
            /\ project' = [project EXCEPT !.status = "CODING"]
            /\ events' = Append(events,
                             NewEvent("log", "info", "project_service",
                                      <<project.status, "CODING">>))
            /\ resumed' = "project"
       ELSE /\ resumed' = "None"
            /\ UNCHANGED <<project, events>>
    /\ UNCHANGED <<tasks, runs, issued, owesReady, prior, other>>

\* ProjectService.resume_project: None when the project is missing or not
\* PAUSED, else update_project_status(CODING) and the project.
resume_project ==
    /\ resumed = "pending"
    /\ IF ProjectFound /\ project.status = "PAUSED"
       THEN /\ Len(events) < MaxEvents
            /\ project' = [project EXCEPT !.status = "CODING"]
            /\ events' = Append(events,
                             NewEvent("log", "info", "project_service",
                                      <<"PAUSED", "CODING">>))
            /\ resumed' = "project"
       ELSE /\ resumed' = "None"
            /\ UNCHANGED <<project, events>>
    /\ UNCHANGED <<tasks, runs, issued, owesReady, prior, other>>

NextEvents ==
    \/ create_project
    \/ \E e \in LoggedEvents : log_event(e[1], e[2])
    \/ \E status \in StatusInputs : update_project_status(status)
    \/ DeleteProject
    \/ ResumeRequest
    \/ resume_project

SpecEvents == Init /\ [][NextEvents]_vars

-----------------------------------------------------------------------------
\* C1: under concurrent invocations of schedule_next_tasks every ready task
\* is dispatched exactly once: no task has two agent invocations issued for
\* the same PENDING -> QUEUED claim.
C1_DispatchedOnce == \A t \in TaskIds : issued[t] <= 1

\* C2: if the project's status is READY then every task of the project,
\* its planning task included, has status COMPLETED.
C2_ReadyImpliesAllCompleted ==
    project.status = "READY" => \A t \in Existing : tasks[t].status = "COMPLETED"

\* C3: once every task of the project has reached COMPLETED the project's
\* status eventually becomes READY: when nothing is left to call back, no
\* such obligation is open.
C3_AllCompletedLeadsToReady == Quiescent => ~owesReady

\* What the claims observe of a step.
\* The agent invocations that have been issued for task t so far.
Dispatches(t) == Cardinality({k \in 1..Len(runs[t]) : runs[t][k].kind = "agent"})

\* The fix invocations that have been issued for task t so far.
FixInvocations(t) == Cardinality({k \in 1..Len(runs[t]) : runs[t][k].kind = "fixer"})

\* Run k of task t goes from pc a to pc b in this step.
Moves(t, k, a, b) ==
    /\ k <= Len(runs[t])
    /\ runs[t][k].pc = a
    /\ runs'[t][k].pc = b

\* C4: for every task and in every reachable state retry_count <= max_retries,
\* under any interleaving of on_task_failure calls and fixer outcomes.
C4_RetryCountBounded == \A t \in TaskIds : tasks[t].retry_count <= max_retries

\* A task has used up its retries and a later failure of it has failed the project.
C4_Witness ==
    \E t \in TaskIds :
        /\ tasks[t].retry_count = max_retries
        /\ tasks[t].status = "FAILED"
        /\ project.status = "FAILED"
        /\ project.last_error # <<>>
        /\ project.last_error[1] = t

\* C5: once a task's retries are exhausted and the project's status has been
\* set to FAILED, no agent invocation is issued for any task of the project.
C5_NoDispatchAfterFailed ==
    [][project.status = "FAILED" =>
          \A t \in TaskIds : Dispatches(t)' = Dispatches(t)]_vars

\* C6: whenever an agent invocation is issued for a task, every task in its
\* depends_on is COMPLETED: TESTING is dispatched only once both codegen
\* tasks are COMPLETED, DEPLOYMENT only once TESTING is COMPLETED.
C6_DispatchOnlyWhenDepsCompleted ==
    [][\A t \in TaskIds :
          Dispatches(t)' > Dispatches(t) =>
              \A d \in tasks'[t].depends_on : tasks'[d].status = "COMPLETED"]_vars

\* C7: on_task_failure on a task whose retry_count is below max_retries
\* leaves it RETRYING with retry_count one higher and the error recorded,
\* and issues exactly one fix invocation with the task's id and the error.
C7_FailureBelowMaxRetries ==
    [][\A t \in TaskIds : \A k \in 1..Len(runs[t]) :
          (Moves(t, k, "failing", "done") /\ tasks[t].retry_count < max_retries) =>
              /\ tasks'[t].status = "RETRYING"
              /\ tasks'[t].retry_count = tasks[t].retry_count + 1
              /\ tasks'[t].error_message = runs[t][k].error
              /\ FixInvocations(t)' = FixInvocations(t) + 1
              /\ runs'[t][Len(runs'[t])] = NewRun("fixer", runs[t][k].error)]_vars

C9_FixFailureIsPermanent ==
    [][\A t \in TaskIds :
          (tasks[t].status = "FAILED" /\ tasks[t].error_message = "fix_failed") =>
              /\ tasks'[t] = tasks[t]
              /\ Len(runs'[t]) = Len(runs[t])]_vars

\* C10: on_task_failure on a task whose retry_count has reached max_retries
\* sets the task FAILED, adds exactly one to the project's failed_tasks,
\* sets the project FAILED with the error as its last error, issues no fix
\* invocation and leaves retry_count as it is.
C10_FailureAtMaxRetries ==
    [][\A t \in TaskIds : \A k \in 1..Len(runs[t]) :
          (Moves(t, k, "failing", "done") /\ tasks[t].retry_count >= max_retries) =>
              /\ tasks'[t].status = "FAILED"
              /\ project'.failed_tasks = project.failed_tasks + 1
              /\ project'.status = "FAILED"
              /\ project'.last_error = <<t, runs[t][k].error>>
              /\ FixInvocations(t)' = FixInvocations(t)
              /\ tasks'[t].retry_count = tasks[t].retry_count]_vars

\* C11: while the project's status is PAUSED no task of it is claimed or
\* dispatched: no task goes PENDING -> QUEUED and no agent invocation is
\* issued, whichever callback runs the resolver.
C11_NoDispatchWhilePaused ==
    [][project.status = "PAUSED" =>
          \A t \in TaskIds :
              /\ Dispatches(t)' = Dispatches(t)
              /\ ~(tasks[t].status = "PENDING" /\ tasks'[t].status = "QUEUED")]_vars

\* C12: a resume of a PAUSED project (the one step that takes the project
\* out of PAUSED with no invocation moving) restores the status the project
\* had immediately before it was paused.
C12_ResumeRestoresPrior ==
    [][(project.status = "PAUSED" /\ project'.status # "PAUSED" /\ runs' = runs) =>
          project'.status = prior]_vars

\* C13: a completion delivered for a task that is already COMPLETED is a
\* no-op: the task stays as it is and the project's completed-task counter
\* and status are not changed.
C13_SecondCompletionIsNoOp ==
    [][\A t \in TaskIds \ {"plan"} : \A k \in 1..Len(runs[t]) :
          (Moves(t, k, "running", "dispatch") /\ tasks[t].status = "COMPLETED") =>
              /\ tasks'[t] = tasks[t]
              /\ project' = project]_vars

\* C14: every change of an existing task's status follows an edge of the
\* state machine PENDING -> QUEUED -> RUNNING -> COMPLETED | FAILED,
\* FAILED -> RETRYING, RETRYING -> PENDING | FAILED; no other change
\* (RUNNING -> RETRYING, or one out of COMPLETED) occurs.
C14_OnlyStateMachineEdges ==
    [][\A t \in TaskIds :
          (tasks[t].status # "NONE" /\ tasks'[t].status # tasks[t].status) =>
              <<tasks[t].status, tasks'[t].status>> \in
                  {<<"PENDING", "QUEUED">>, <<"QUEUED", "RUNNING">>,
                   <<"RUNNING", "COMPLETED">>, <<"RUNNING", "FAILED">>,
                   <<"FAILED", "RETRYING">>, <<"RETRYING", "PENDING">>,
                   <<"RETRYING", "FAILED">>}]_vars

\* C15: every agent invocation that a worker runs ends in exactly one
\* orchestrator callback: from its body it enters the completion callback
\* or the failure callback, and it never finishes without entering one.
C15_ExactlyOneCallback ==
    [][\A t \in TaskIds : \A k \in 1..Len(runs[t]) :
          (runs[t][k].kind = "agent" /\ runs[t][k].pc = "running"
                                      /\ runs'[t][k].pc # "running") =>
              runs'[t][k].pc \in {"dispatch", "failing"}]_vars

\* C16: every project ends READY or FAILED: once no invocation is queued,
\* running or calling back (so that no step remains to be scheduled), an
\* existing project is in a terminal status.
C16_QuiescentIsTerminal ==
    (Quiescent /\ project.status # "NONE") => project.status \in {"READY", "FAILED"}

\* C17: every call of on_task_complete adds exactly one to the project's
\* stored counter of completed tasks, whatever other completions are being
\* handled at the same time (no update is lost).
C17_EachCompletionCountsOnce ==
    [][\A t \in TaskIds \ {"plan"} : \A k \in 1..Len(runs[t]) :
          (runs[t][k].kind = "agent" /\ Moves(t, k, "running", "dispatch")) =>
              project'.completed_tasks = project.completed_tasks + 1]_vars

\* C18: on_planning_complete creates exactly one CODEGEN task for each
\* component the spec declares, one TESTING task that depends on all the
\* CODEGEN tasks and one DEPLOYMENT task that depends on the TESTING task,
\* all PENDING; it sets the project CODING and total_tasks to the number
\* of tasks created.
C18_PlanningCreatesTaskGraph ==
    [][\A k \in 1..Len(runs["plan"]) :
          Moves("plan", k, "running", "dispatch") =>
              LET created == {t \in TaskIds : tasks[t].status = "NONE"
                                                /\ tasks'[t].status # "NONE"}
                  code == {t \in created : tasks'[t].type = "CODEGEN"}
                  testing == {t \in created : tasks'[t].type = "TESTING"}
                  deployment == {t \in created : tasks'[t].type = "DEPLOYMENT"}
              IN  /\ code = project'.spec
                  /\ Cardinality(testing) = 1
                  /\ Cardinality(deployment) = 1
                  /\ created = code \cup testing \cup deployment
                  /\ \A t \in code : tasks'[t].depends_on = {}
                  /\ \A t \in testing : tasks'[t].depends_on = code
                  /\ \A t \in deployment : tasks'[t].depends_on = testing
                  /\ \A t \in created : tasks'[t].status = "PENDING"
                  /\ project'.status = "CODING"
                  /\ project'.total_tasks = Cardinality(created)]_vars

\* Planning has completed for a spec with two components: four tasks exist
\* besides the plan, and the planner's session is about to dispatch.
C18_Witness ==
    /\ project.spec = {"backend", "frontend"}
    /\ project.status = "CODING"
    /\ project.total_tasks = 4
    /\ \E k \in 1..Len(runs["plan"]) : runs["plan"][k].pc = "dispatch"
    /\ \A t \in {"backend", "frontend", "test", "deploy"} : tasks[t].status = "PENDING"
    /\ tasks["test"].depends_on = {"backend", "frontend"}

\* C19: the dependencies of every task are existing tasks of the project,
\* never the task itself, and the dependency relation has no cycle.
C19_DependenciesWellFounded ==
    LET Step == {<<t, d>> \in TaskIds \X TaskIds : d \in tasks[t].depends_on}
        Closure[n \in 0..3] ==
            IF n = 0 THEN Step
            ELSE Closure[n - 1] \cup
                 {<<a, c>> \in TaskIds \X TaskIds :
                     \E b \in TaskIds : /\ <<a, b>> \in Closure[n - 1]
                                        /\ <<b, c>> \in Closure[n - 1]}
    IN  /\ \A t \in TaskIds : tasks[t].depends_on \subseteq Existing \ {t}
        /\ \A t \in TaskIds : <<t, t>> \notin Closure[3]

\* The task graph of a spec with one component is in place and its last
\* task has been dispatched.
C19_Witness ==
    /\ tasks["test"].depends_on = {"infrastructure"}
    /\ tasks["deploy"].depends_on = {"test"}
    /\ tasks["infrastructure"].status = "COMPLETED"
    /\ tasks["test"].status = "COMPLETED"
    /\ tasks["deploy"].status = "QUEUED"

\* C20: a run of the resolver dispatches exactly the ready tasks: every
\* task it dispatches is PENDING with every dependency COMPLETED, and every
\* task its query returned that is PENDING with every dependency COMPLETED
\* is dispatched (a task with no dependency is ready at once; a task with a
\* dependency that is missing or not COMPLETED is not dispatched).
C20_ResolverSelectsReadyTasks ==
    [][\A t \in TaskIds : \A k \in 1..Len(runs[t]) :
          Moves(t, k, "dispatch", "done") =>
              LET selected == {u \in TaskIds : Len(runs'[u]) > Len(runs[u])}
                  ready == {u \in Existing :
                              /\ tasks[u].status = "PENDING"
                              /\ \A d \in tasks[u].depends_on :
                                     tasks[d].status = "COMPLETED"}
              IN  /\ selected \subseteq ready
                  /\ ready \cap runs[t][k].pend0 \subseteq selected]_vars

\* C21: a callback (on_task_complete, on_task_failure, on_planning_complete)
\* that is called for a task or project that no longer exists returns
\* without changing anything: no task, no project field, no dispatch.
C21_NotFoundChangesNothing ==
    [][\A t \in TaskIds : \A k \in 1..Len(runs[t]) :
          (/\ runs[t][k].kind = "agent"
           /\ runs[t][k].pc \in {"running", "failing"}
           /\ runs'[t][k].pc # runs[t][k].pc
           /\ IF t = "plan" THEN ~ProjectFound ELSE ~TaskFound(t)) =>
              /\ tasks' = tasks
              /\ project' = project
              /\ issued' = issued
              /\ \A u \in TaskIds : Len(runs'[u]) = Len(runs[u])]_vars

\* The project was deleted while the agents of two of its tasks were
\* running or reporting a failure, and the callback of each has since
\* found no task and returned.
C21_Witness ==
    /\ ~ProjectFound
    /\ Existing = {}
    /\ \E k \in 1..Len(runs["backend"]) : runs["backend"][k].pc = "not_found"
    /\ \E k \in 1..Len(runs["frontend"]) : runs["frontend"][k].pc = "not_found"

\* C22: a permanent failure in one project does not affect another: the
\* step of on_task_failure that fails the first project leaves the second
\* project's row and tasks unchanged, and while the first project is FAILED
\* the second, unless it is finished, still has a step to take towards READY.
C22_FailureStaysInProject ==
    /\ [][(\E t \in TaskIds : \E k \in 1..Len(runs[t]) : Moves(t, k, "failing", "done"))
             => other' = other]_vars
    /\ [](project.status = "FAILED" =>
             \/ other.status \in {"NONE", "READY"}
             \/ ENABLED OtherStep)

\* The first project has failed for good and the second has completed both
\* its tasks and is READY, with no failure and no error recorded.
C22_Witness ==
    /\ project.status = "FAILED"
    /\ project.failed_tasks >= 1
    /\ other.status = "READY"
    /\ other.completed_tasks = 2
    /\ other.failed_tasks = 0
    /\ other.last_error = <<>>

\* C23: neither a permanent failure nor a pause preempts work in flight:
\* the step that makes the project FAILED or PAUSED leaves every other task
\* that is QUEUED or RUNNING as it is, and an agent that returns with
\* success afterwards still has its task made COMPLETED.
C23_NoPreemption ==
    /\ [][(project'.status \in {"FAILED", "PAUSED"} /\ project'.status # project.status) =>
             \A u \in TaskIds :
                 (/\ tasks[u].status \in {"QUEUED", "RUNNING"}
                  /\ \A k \in 1..Len(runs[u]) : ~Moves(u, k, "failing", "done")) =>
                     tasks'[u] = tasks[u]]_vars
    /\ [][\A t \in TaskIds : \A k \in 1..Len(runs[t]) :
             (runs[t][k].kind = "agent" /\ Moves(t, k, "running", "dispatch")) =>
                 tasks'[t].status = "COMPLETED"]_vars

\* An agent that started while its project was paused has returned with
\* success, and its task is COMPLETED in the project, which is still paused.
C23_Witness ==
    /\ project.status = "PAUSED"
    /\ \E t \in TaskIds \ {"plan"} : \E k \in 1..Len(runs[t]) :
          /\ runs[t][k].pc = "dispatch"
          /\ runs[t][k].proj.status = "PAUSED"
          /\ tasks[t].status = "COMPLETED"

\* C24: once the project is READY or FAILED no step of the orchestrator
\* (completion handler, failure handler, fixer outcome, resolver run,
\* terminal check) changes its status again; in particular a FAILED project
\* never becomes READY.
C24_TerminalStatusIsFinal ==
    [][project.status \in {"READY", "FAILED"} => project'.status = project.status]_vars

\* C25: the event log is append-only: while the project exists every step
\* leaves the events already written in place and unchanged, and can only
\* add events after them.
C25_EventsAppendOnly ==
    [][(ProjectFound /\ ProjectFound') =>
          /\ Len(events') >= Len(events)
          /\ SubSeq(events', 1, Len(events)) = events]_vars

\* The log of a project that still exists is full; its second and third
\* events were written by status updates and an agent's event came after.
C25_Witness ==
    /\ ProjectFound
    /\ Len(events) = MaxEvents
    /\ events[Len(events)].source = "agent"
    /\ events[1].type = "project_created"
    /\ events[2].details = <<"NEW", "PAUSED">>
    /\ events[3].details = <<"PAUSED", "CODING">>

\* C26: graph expansion is atomic for the resolver: no committed state, and
\* so no run of the resolver, shows a task of a new batch before the batch's
\* cross-references are in: the TESTING task always depends on the CODEGEN
\* tasks and the DEPLOYMENT task on the TESTING task, and neither is
\* dispatched on the strength of an empty dependency list it was built with.
C26_ExpansionIsAtomic ==
    LET OfType(type) == {u \in Existing : tasks[u].type = type}
    IN  /\ \A u \in OfType("TESTING") : tasks[u].depends_on = OfType("CODEGEN")
        /\ \A u \in OfType("DEPLOYMENT") :
               /\ tasks[u].depends_on = OfType("TESTING")
               /\ tasks[u].depends_on # {}
        /\ \A u \in OfType("DEPLOYMENT") :
               Len(runs[u]) > 0 => \E d \in tasks[u].depends_on : Len(runs[d]) > 0

\* The resolver has run on a new batch: the code generators are dispatched,
\* and the test and deployment tasks, whose dependencies are in, wait.
C26_Witness ==
    /\ tasks["backend"].status = "QUEUED"
    /\ tasks["frontend"].status = "QUEUED"
    /\ tasks["test"].status = "PENDING"
    /\ tasks["test"].depends_on = {"backend", "frontend"}
    /\ tasks["deploy"].status = "PENDING"
    /\ tasks["deploy"].depends_on = {"test"}
    /\ Len(runs["test"]) = 0

\* C27: every task that goes from PENDING to QUEUED has the agent of its type
\* invoked on that step and the handle of that invocation recorded, and no
\* task of any type is QUEUED with no agent invocation and no handle.
C27_QueuedMeansDispatched ==
    /\ [][\A t \in TaskIds :
             (tasks[t].status = "PENDING" /\ tasks'[t].status = "QUEUED") =>
                 /\ Len(runs'[t]) = Len(runs[t]) + 1
                 /\ runs'[t][Len(runs'[t])].kind = "agent"
                 /\ runs'[t][Len(runs'[t])].pc = "queued"
                 /\ tasks'[t].celery_task_id = Len(runs'[t])]_vars
    /\ [](\A t \in TaskIds :
             tasks[t].status = "QUEUED" =>
                 /\ tasks[t].celery_task_id \in 1..Len(runs[t])
                 /\ runs[t][tasks[t].celery_task_id].kind = "agent")

\* A task of each routed type created in the graph has been queued from
\* PENDING: the deployment task is QUEUED with the handle of its agent.
C27_Witness ==
    /\ tasks["deploy"].status = "QUEUED"
    /\ tasks["deploy"].type = "DEPLOYMENT"
    /\ tasks["deploy"].celery_task_id = Len(runs["deploy"])
    /\ runs["deploy"][Len(runs["deploy"])].pc = "queued"
    /\ tasks["test"].type = "TESTING" /\ Dispatches("test") >= 1
    /\ \E c \in tasks["test"].depends_on : Dispatches(c) >= 1

\* C28: forward progress of dispatch, in the form a finite run can refute:
\* when no invocation is queued or running any more, so that nothing will
\* call the resolver again, and the project is neither PAUSED nor FAILED,
\* no task is left PENDING with all its dependencies COMPLETED.
C28_ReadyTasksAreDispatched ==
    (Quiescent /\ project.status \notin {"PAUSED", "FAILED"}) =>
        \A u \in Existing :
            ~(/\ tasks[u].status = "PENDING"
              /\ \A d \in tasks[u].depends_on : tasks[d].status = "COMPLETED")

\* Nothing is queued or running, the project is READY, and on the way a
\* task was ready after the graph was built, another after its dependency
\* completed, and one again after the fixer reset it; each was dispatched.
C28_Witness ==
    /\ Quiescent
    /\ project.status = "READY"
    /\ \E t \in Existing : FixInvocations(t) >= 1 /\ Dispatches(t) >= 2
    /\ \A t \in Existing : tasks[t].status = "COMPLETED"
    /\ Dispatches("deploy") >= 1

\* C29: the recovery cycle is bounded: no step resets or lowers a task's
\* retry_count, every task is handed to its execution agent at most
\* max_retries + 1 times and has at most max_retries fix invocations.
C29_RecoveryIsBounded ==
    /\ [][\A t \in TaskIds :
             (tasks[t].status # "NONE" /\ tasks'[t].status # "NONE") =>
                 tasks'[t].retry_count >= tasks[t].retry_count]_vars
    /\ [](\A t \in TaskIds :
             /\ Dispatches(t) <= max_retries + 1
             /\ FixInvocations(t) <= max_retries)

\* C30: a failure that is retried does not count toward completion: the
\* step of on_task_failure that enqueues the fixer sets the task RETRYING,
\* leaves the project's status and its three counters as they are,
\* creates no task, and leaves every other task of the project unchanged.
C30_RetryLeavesProjectAlone ==
    [][\A t \in TaskIds : \A k \in 1..Len(runs[t]) :
          (/\ Moves(t, k, "failing", "done")
           /\ Len(runs'[t]) = Len(runs[t]) + 1
           /\ runs'[t][Len(runs'[t])].kind = "fixer") =>
              /\ tasks'[t].status = "RETRYING"
              /\ project'.status = project.status
              /\ project'.total_tasks = project.total_tasks
              /\ project'.completed_tasks = project.completed_tasks
              /\ project'.failed_tasks = project.failed_tasks
              /\ {u \in TaskIds : tasks'[u].status # "NONE"} = Existing
              /\ \A u \in TaskIds \ {t} : tasks'[u] = tasks[u]
              /\ \A u \in TaskIds \ {t} : Len(runs'[u]) = Len(runs[u])]_vars

\* A failure has been taken into a retry: the task is RETRYING with its
\* fixer enqueued, beside a completed task and pending ones,
\* and the project is CODING with no failed task counted.
C30_Witness ==
    /\ \E t \in Existing :
          /\ tasks[t].status = "RETRYING"
          /\ tasks[t].retry_count = 1
          /\ runs[t][Len(runs[t])].kind = "fixer"
          /\ runs[t][Len(runs[t])].pc = "queued"
    /\ \E u \in Existing \ {"plan"} : tasks[u].status = "COMPLETED"
    /\ \E u \in Existing : tasks[u].status = "PENDING"
    /\ project.status = "CODING"
    /\ project.failed_tasks = 0
    /\ project.completed_tasks = 1

\* C31: create_project leaves the project NEW with exactly one task, the
\* PLANNING task, QUEUED with the handle of the one planner invocation
\* issued; and no other task exists until the planner's completion is
\* taken by on_planning_complete.
C31_CreationSchedulesPlanning ==
    /\ [][(project.status = "NONE" /\ project'.status # "NONE") =>
             /\ project'.status = "NEW"
             /\ {t \in TaskIds : tasks'[t].status # "NONE"} = {"plan"}
             /\ tasks'["plan"].type = "PLANNING"
             /\ tasks'["plan"].status = "QUEUED"
             /\ Len(runs'["plan"]) = 1
             /\ runs'["plan"][1] = NewRun("agent", "none")
             /\ tasks'["plan"].celery_task_id = 1
             /\ \A t \in TaskIds \ {"plan"} : runs'[t] = <<>>]_vars
    /\ [][(Existing = {"plan"} /\ {t \in TaskIds : tasks'[t].status # "NONE"} # {"plan"}) =>
             /\ \E k \in 1..Len(runs["plan"]) : Moves("plan", k, "running", "dispatch")
             /\ tasks'["plan"].status = "COMPLETED"]_vars
    /\ [](project.status = "NEW" =>
             /\ Existing = {"plan"}
             /\ Dispatches("plan") = 1)

\* The project has just been created: it is NEW, its planning task is
\* QUEUED with its handle and the planner has not started.
C31_Witness ==
    /\ project.status = "NEW"
    /\ Existing = {"plan"}
    /\ tasks["plan"].status = "QUEUED"
    /\ tasks["plan"].celery_task_id = 1
    /\ runs["plan"][1].pc = "queued"

\* C32: whenever a task of the graph is permanently FAILED, that is FAILED
\* with no invocation of it queued, running or calling back, the project's
\* status is FAILED and failed_tasks is the number of such tasks.
C32_FailedTaskFailsProject ==
    LET Permanent == {t \in Existing \ {"plan"} :
                         /\ tasks[t].status = "FAILED"
                         /\ \A k \in 1..Len(runs[t]) : runs[t][k].pc = "done"}
    IN  Permanent # {} =>
            /\ project.status = "FAILED"
            /\ project.failed_tasks = Cardinality(Permanent)

\* C33: in every reachable state completed_tasks + failed_tasks is at most
\* total_tasks, and completed_tasks is at most the number of the project's
\* graph tasks that are COMPLETED.
C33_CountersWithinGraph ==
    /\ project.completed_tasks + project.failed_tasks <= project.total_tasks
    /\ project.completed_tasks <=
           Cardinality({t \in Existing \ {"plan"} : tasks[t].status = "COMPLETED"})

\* C34: the project's status stays PAUSED from the pause to the resume: a
\* step on which an invocation moves (a completion or failure callback, the
\* terminal check, the planner's completion) never takes the status out of
\* PAUSED.
C34_PausedUntilResumed ==
    [][(project.status = "PAUSED" /\ runs' # runs) =>
          project'.status = "PAUSED"]_vars

\* C35: while a task is RETRYING, or FAILED with no invocation of it in
\* flight, no step dispatches it, and no step dispatches a task that
\* depends on it directly or through another task: such a dependent that
\* is PENDING stays PENDING.
C35_NoDispatchBehindFailure ==
    [][LET Blocked == {t \in Existing :
                          \/ tasks[t].status = "RETRYING"
                          \/ /\ tasks[t].status = "FAILED"
                             /\ \A k \in 1..Len(runs[t]) : runs[t][k].pc = "done"}
           Behind(u) == \E t \in Blocked :
                           \/ t \in tasks[u].depends_on
                           \/ \E d \in tasks[u].depends_on : t \in tasks[d].depends_on
       IN  \A u \in Existing :
               (u \in Blocked \/ Behind(u)) =>
                   /\ Dispatches(u)' = Dispatches(u)
                   /\ tasks'[u].status # "QUEUED" \/ tasks[u].status = "QUEUED"
                   /\ (Behind(u) /\ tasks[u].status = "PENDING") =>
                          tasks'[u].status = "PENDING"]_vars

\* C36: a resume of a project that does not exist or is not PAUSED is
\* rejected: resume_project returns no project, the project's status is
\* unchanged and no event is appended.
C36_ResumeRejectedUnlessPaused ==
    [][(/\ resumed = "pending"
        /\ resumed' # "pending"
        /\ ~ProjectFound \/ project.status # "PAUSED") =>
           /\ resumed' = "None"
           /\ project' = project
           /\ events' = events]_vars

\* A resume has been rejected for a project that exists and is CODING
\* after an earlier pause and resume; its events are the three it had.
C36_Witness ==
    /\ resumed = "None"
    /\ project.status = "CODING"
    /\ Len(events) = 3
    /\ events[3].details = <<"PAUSED", "CODING">>

TypeOK ==
    /\ project.status \in {"NONE", "NEW", "CODING", "READY", "FAILED", "PAUSED", "DELETED"}
    /\ \A t \in TaskIds :
          /\ tasks[t].status \in {"NONE", "PENDING", "QUEUED", "RUNNING",
                                  "COMPLETED", "FAILED", "RETRYING"}
          /\ tasks[t].depends_on \subseteq TaskIds
    /\ resumed \in {"idle", "pending", "project", "None"}

====
